---------------------------- MODULE Spec2Model ----------------------------
(***************************************************************************)
(* Resumable parallel batch orchestrators of the NuSTAR reduction scripts: *)
(*   stage 1  run_nupipeline.py   one unit per observation                 *)
(*   stage 2  run_nuproducts.py   one unit per (obs, det, src, bkg, bin)   *)
(* The filesystem (output directories and their log files) is the only     *)
(* state that survives a run; the process pool runs up to max_workers      *)
(* launchers at a time and main collects the futures as they complete.     *)
(***************************************************************************)
EXTENDS Integers, Sequences, FiniteSets, TLC

VARIABLES
    stage,        \* 1 = run_nupipeline.py, 2 = run_nuproducts.py
    cfg,          \* the JSON configuration on disk (observations, parameter lists)
    env,          \* what the process finds: environment variables, config files, cpus, -j
    dirs,         \* the output directories that exist
    logs,         \* output directory -> its log file
    pc,           \* position of main
    max_workers,  \* resolved pool size
    worklist,     \* stage 1: observations queued by the planner so far
    planned,      \* stage 1: number of observations the planner has looked at
    tasks,        \* the units submitted to the pool, in submission order
    tpc,          \* task index -> position of its future / launcher
    res,          \* task index -> outcome of the launcher
    spawned,      \* task index -> number of external commands its launcher started
    failures,     \* stage 2: the failures list of main
    reported,     \* task index -> the verdicts main has logged for its future
    exitStatus,   \* exit status of the process, -1 while it runs
    run,          \* number of the current orchestrator run
    hist          \* what earlier steps did (for the properties only)

vars == <<stage, cfg, env, dirs, logs, pc, max_workers, worklist, planned, tasks,
          tpc, res, spawned, failures, reported, exitStatus, run, hist>>

-----------------------------------------------------------------------------
(* Bounds of the model *)

MaxObs == 2          \* longest observation list
MaxParam == 2        \* longest parameter list (radii, annuli, bin sizes)
MaxTasks == 4        \* largest number of units of one stage-2 run
MaxCpu == 4          \* largest cpu_count
MaxRuns == 2         \* orchestrator runs in a row
MaxJobs == 2         \* largest explicit -j value

-----------------------------------------------------------------------------
(* Small helpers *)

Range(s) == {s[i] : i \in 1..Len(s)}

SeqsUpTo(S, lo, hi) == UNION {[1..n -> S] : n \in lo..hi}

Max(a, b) == IF a >= b THEN a ELSE b

RECURSIVE Flatten(_)
Flatten(ss) == IF ss = <<>> THEN <<>> ELSE Head(ss) \o Flatten(Tail(ss))

-----------------------------------------------------------------------------
(* Files.  A log is a record; its text is a sequence of tokens.            *)
(*   stage 1: one token per line, as splitlines() returns them: the digits *)
(*            that _FINISH_RE captures in the line, or "-" when the line   *)
(*            does not match;                                              *)
(*   stage 2: "x" a run of other characters, "nl" a newline character and  *)
(*            "M" the characters `nuproducts done'.                         *)

NoFile == [exists |-> FALSE, readable |-> FALSE, text |-> <<>>]

NewFile(t) == [exists |-> TRUE, readable |-> TRUE, text |-> t]

\* open(path, "w"): creates the file or truncates it; the mode bits of an
\* existing file stay as they are.
OpenW(f) == IF f.exists THEN [f EXCEPT !.text = <<>>] ELSE NewFile(<<>>)

\* write(data) through a handle opened with "w" whose offset is 0: the data
\* replaces the first Len(data) tokens, whatever lies behind them stays.
WriteAt0(f, data) ==
    [f EXCEPT !.text = IF Len(f.text) > Len(data)
                         THEN data \o SubSeq(f.text, Len(data) + 1, Len(f.text))
                         ELSE data]

\* open(path, "a") and write(data): the data goes to the end of the file.
AppendTo(f, data) == [f EXCEPT !.text = f.text \o data]

-----------------------------------------------------------------------------
(* run_nuproducts.py: completion detector, paths, enumeration *)

\* FIN_RE = re.compile(r"^nuproducts done", re.M): the marker at the start
\* of the text or right after a newline.
FIN_RE_search(text) ==
    \E i \in 1..Len(text) : text[i] = "M" /\ (i = 1 \/ text[i - 1] = "nl")

\* the text appended after a zero exit code: "\nnuproducts done\n"
MarkerText == <<"nl", "M", "nl">>

\* log.read_text() raises when the file is there and cannot be read
ReadRaises(f) == f.exists /\ ~f.readable

\* _needs_rerun answering "complete" when there is no log
NeedsRerun2_AbsentIsComplete(f) == f.exists /\ ~FIN_RE_search(f.text)

\* a detector that asks for a run whatever the log holds
NeedsRerun2_Always(f) == TRUE

\* _needs_rerun(outdir), when read_text does not raise
NeedsRerun2(f) == ~(f.exists /\ FIN_RE_search(f.text))

RECURSIVE Digits(_)
Digits(n) == IF n < 10 THEN <<n>> ELSE Digits(n \div 10) \o <<n % 10>>

\* f"{n:03d}": the decimal digits, zero-padded to at least three
Fmt03d(n) ==
    LET d == Digits(n)
    IN  IF Len(d) >= 3 THEN d ELSE [i \in 1..(3 - Len(d)) |-> 0] \o d

\* products_base / obsid / f"{det}_src{r_src:03d}_bkg{rin:03d}-{rout:03d}_bin{binsize}"
OutDir2(u) ==
    <<"products_base", u.obsid, u.det, Fmt03d(u.comb[1]), Fmt03d(u.comb[2]),
      Fmt03d(u.comb[3]), Digits(u.comb[4])>>

Dets == <<"A", "B">>

\* combos pairing the k-th radius with the k-th annulus instead of crossing
Combos_Zipped(c) ==
    LET n == IF Len(c.src_radii) <= Len(c.bkg_annuli)
               THEN Len(c.src_radii) ELSE Len(c.bkg_annuli)
    IN  Flatten([i \in 1..n |->
          [k \in 1..Len(c.bin_sizes) |->
             <<c.src_radii[i], c.bkg_annuli[i][1], c.bkg_annuli[i][2], c.bin_sizes[k]>>]])

\* combos: radii outermost, then annuli, then bin sizes
Combos(c) ==
    Flatten([i \in 1..Len(c.src_radii) |->
      Flatten([j \in 1..Len(c.bkg_annuli) |->
        [k \in 1..Len(c.bin_sizes) |->
           <<c.src_radii[i], c.bkg_annuli[j][1], c.bkg_annuli[j][2], c.bin_sizes[k]>>]])])

\* tasks built with the detector loop innermost
Tasks2_DetInnermost(c) ==
    LET combos == Combos(c)
    IN  Flatten([o \in 1..Len(c.observations) |->
          Flatten([m \in 1..Len(combos) |->
            [d \in 1..2 |->
               [obsid |-> c.observations[o], det |-> Dets[d], comb |-> combos[m]]]])])

\* tasks: observations outermost, then A before B, then the combos
Tasks2(c) ==
    LET combos == Combos(c)
    IN  Flatten([o \in 1..Len(c.observations) |->
          Flatten([d \in 1..2 |->
            [m \in 1..Len(combos) |->
               [obsid |-> c.observations[o], det |-> Dets[d], comb |-> combos[m]]]])])

\* max_workers = max(1, mp.cpu_count() // 2)
AutoWorkers(cpus) == Max(1, cpus \div 2)

-----------------------------------------------------------------------------
(* run_nupipeline.py: completion detector, paths, worker count *)

\* read_text().splitlines()[-100:]
TailLines == 100

\* splitlines()[-101:]: the window one line too long
LastLines_OneMore(lines) ==
    IF Len(lines) <= TailLines + 1 THEN lines
    ELSE SubSeq(lines, Len(lines) - TailLines, Len(lines))

LastLines(lines) ==
    IF Len(lines) <= TailLines THEN lines
    ELSE SubSeq(lines, Len(lines) - TailLines + 1, Len(lines))

\* _needs_rerun(obsid, cfg)
NeedsRerun1(f, obsid) ==
    IF ~f.exists THEN TRUE                     \* log_path.is_file() is false
    ELSE IF ReadRaises(f) THEN TRUE            \* except OSError: pass
    ELSE ~\E k \in 1..Len(LastLines(f.text)) : LastLines(f.text)[k] = obsid

\* outdir_base / f"{obs}_out"
OutDir1(obsid) == <<"outdir_base", obsid>>

\* -j: "auto", "off", or something int() is applied to
JobsAuto == [kind |-> "auto", n |-> 0]
JobsOff == [kind |-> "off", n |-> 0]
JobsInt(n) == [kind |-> "int", n |-> n]
JobsText == [kind |-> "text", n |-> 0]

\* int(job_setting) raises ValueError on a string that is no integer
IntRaises(j) == j.kind = "text"

\* lines 102-107, when int() does not raise
ResolveWorkers(j, cpus) ==
    IF j.kind = "auto" THEN AutoWorkers(cpus)
    ELSE IF j.kind = "off" THEN 1
    ELSE j.n

-----------------------------------------------------------------------------
(* Inputs *)

ObsIds == {"1001", "1002"}
RadiiVals == {5, 50}
AnnuliVals == {<<60, 90>>}
BinVals == {1}

\* exit codes of the external command: success, failure
ExitCodes == {0, 2}

\* what the external stage-2 command leaves on its standard output
ToolOutputs == {<<"x">>}

\* lists that differ only by a renaming of their values behave alike: the
\* first value of a list is the smallest one
Lists(S, lo, hi) ==
    {s \in SeqsUpTo(S, lo, hi) : s # <<>> => s[1] = CHOOSE x \in S : \A y \in S : x <= y}

ObsLists ==
    {s \in SeqsUpTo(ObsIds, 0, MaxObs) : s # <<>> => s[1] = "1001"}

Configs2 ==
    {c \in [observations : ObsLists,
            src_radii : Lists(RadiiVals, 1, MaxParam),
            bkg_annuli : SeqsUpTo(AnnuliVals, 1, MaxParam),
            bin_sizes : Lists(BinVals, 1, MaxParam)] :
        Len(Tasks2(c)) <= MaxTasks}

Envs2 == [cpus : {1, MaxCpu}, jobs : {"auto"}]

\* logs a stage-2 output directory can hold when a run starts
Unreadable(t) == [exists |-> TRUE, readable |-> FALSE, text |-> t]

OldLogs2 ==
    { NoFile,
      NewFile(<<"x", "nl", "M", "nl">>),
      Unreadable(<<"x", "nl", "M", "nl">>) }

Outcome(e, c) == [exc |-> e, rc |-> c]

NoOutcome == Outcome(FALSE, 0)

\* hist: prevOk  - the run before this one ended with every command at 0
\*       prevRan - and it had started at least one command
\*       seen    - the log the stage-1 planner found for the observation it
\*                 is about to queue
\*       pre     - what the pre-flight checks of this run found
\*       cut     - the output directories of the units that were with a
\*                 worker when the run before this one was killed
\*       given   - under SpecFixedInputs, the exit code the command of each
\*                 unit key gives and the logs the run has started from
PreOk == [headas |-> TRUE, caldb |-> TRUE, files |-> TRUE]

NoGiven == [codes |-> <<>>, logs0 |-> <<>>]

NoHist ==
    [prevOk |-> FALSE, prevRan |-> FALSE, seen |-> NoFile, pre |-> PreOk, cut |-> {},
     given |-> NoGiven]

\* the state of a process that has just been started
Fresh ==
    /\ pc = "start"
    /\ max_workers = 0
    /\ worklist = <<>>
    /\ planned = 0
    /\ tasks = <<>>
    /\ tpc = <<>>
    /\ res = <<>>
    /\ spawned = <<>>
    /\ failures = <<>>
    /\ reported = <<>>
    /\ exitStatus = -1

Init2 ==
    /\ stage = 2
    /\ cfg \in Configs2
    /\ env \in Envs2
    /\ LET D == {OutDir2(u) : u \in Range(Tasks2(cfg))}
       IN  /\ logs \in [D -> OldLogs2]
           /\ Cardinality({d \in D : ReadRaises(logs[d])}) <= 1
           /\ dirs = {d \in D : logs[d].exists}
    /\ Fresh
    /\ run = 1
    /\ hist = NoHist

InFlight == {i \in 1..Len(tasks) : tpc[i] \in {"call", "running", "returned"}}

\* a pool that starts a queued call whatever the number of busy workers
HeadOfQueue_Unbounded(i) ==
    /\ tpc[i] = "queued"
    /\ \A j \in 1..(i - 1) : tpc[j] # "queued"

\* the pool hands the queued calls to its workers in submission order
HeadOfQueue(i) ==
    /\ tpc[i] = "queued"
    /\ \A j \in 1..(i - 1) : tpc[j] # "queued"
    /\ Cardinality(InFlight) < max_workers

Finish(i, o) ==
    /\ tpc' = [tpc EXCEPT ![i] = "finished"]
    /\ res' = [res EXCEPT ![i] = o]

-----------------------------------------------------------------------------
(* run_nuproducts.py: main up to the submission of the tasks *)

\* lines 76-81: both JSON files are read, then HEADAS and CALDB are looked up
Preflight2(files, headas, caldb) ==
    /\ stage = 2 /\ pc = "start"
    /\ IF files /\ headas /\ caldb
         THEN pc' = "plan" /\ UNCHANGED exitStatus
         ELSE pc' = (IF files THEN "fatal" ELSE "crashed") /\ exitStatus' = 1
    /\ hist' = [hist EXCEPT !.pre = [headas |-> headas, caldb |-> caldb, files |-> files]]
    /\ UNCHANGED <<stage, cfg, env, dirs, logs, max_workers, worklist, planned,
                   tasks, tpc, res, spawned, failures, reported, run>>

\* lines 84-108: every combination becomes a task and is submitted
Submit2 ==
    /\ stage = 2 /\ pc = "plan"
    /\ tasks' = Tasks2(cfg)
    /\ max_workers' = AutoWorkers(env.cpus)
    /\ tpc' = [i \in 1..Len(tasks') |-> "queued"]
    /\ res' = [i \in 1..Len(tasks') |-> NoOutcome]
    /\ spawned' = [i \in 1..Len(tasks') |-> 0]
    /\ reported' = [i \in 1..Len(tasks') |-> <<>>]
    /\ pc' = "collect"
    /\ UNCHANGED <<stage, cfg, env, dirs, logs, worklist, planned, failures,
                   exitStatus, run, hist>>

-----------------------------------------------------------------------------
(* run_nuproducts.py: _launch, run by a pool worker *)

\* _launch without lines 45-47: the command is run whatever the log says
LaunchBegin_NoRecheck(i) ==
    /\ stage = 2 /\ pc = "collect"
    /\ HeadOfQueue(i)
    /\ dirs' = dirs \cup {OutDir2(tasks[i])}
    /\ tpc' = [tpc EXCEPT ![i] = "call"]
    /\ UNCHANGED <<stage, cfg, env, logs, pc, max_workers, worklist, planned,
                   tasks, res, spawned, failures, reported, exitStatus, run, hist>>

\* the skip branch writes the log anew, holding the marker only
LaunchBegin_SkipRewritesLog(i) ==
    /\ stage = 2 /\ pc = "collect"
    /\ HeadOfQueue(i)
    /\ LET d == OutDir2(tasks[i])
       IN  /\ dirs' = dirs \cup {d}
           /\ IF ReadRaises(logs[d])
                THEN Finish(i, Outcome(TRUE, 0)) /\ UNCHANGED logs
              ELSE IF ~NeedsRerun2(logs[d])
                THEN /\ Finish(i, Outcome(FALSE, 0))
                     /\ logs' = [logs EXCEPT ![d] = AppendTo(OpenW(@), MarkerText)]
              ELSE tpc' = [tpc EXCEPT ![i] = "call"] /\ UNCHANGED <<res, logs>>
    /\ UNCHANGED <<stage, cfg, env, pc, max_workers, worklist, planned,
                   tasks, spawned, failures, reported, exitStatus, run, hist>>

\* lines 30-47: the worker takes the call, makes the directory and re-checks
LaunchBegin(i) ==
    /\ stage = 2 /\ pc = "collect"
    /\ HeadOfQueue(i)
    /\ LET d == OutDir2(tasks[i])
       IN  /\ dirs' = dirs \cup {d}
           /\ IF ReadRaises(logs[d]) THEN Finish(i, Outcome(TRUE, 0))
              ELSE IF ~NeedsRerun2(logs[d]) THEN Finish(i, Outcome(FALSE, 0))
              ELSE tpc' = [tpc EXCEPT ![i] = "call"] /\ UNCHANGED res
    /\ UNCHANGED <<stage, cfg, env, logs, pc, max_workers, worklist, planned,
                   tasks, spawned, failures, reported, exitStatus, run, hist>>

\* line 65, first half: the log is opened with "w", then the command is
\* started; starting it can raise (the command is not on PATH)
Call2(i, starts) ==
    /\ stage = 2 /\ pc = "collect"
    /\ tpc[i] = "call"
    /\ LET d == OutDir2(tasks[i])
       IN  logs' = [logs EXCEPT ![d] = OpenW(@)]
    /\ IF starts
         THEN /\ tpc' = [tpc EXCEPT ![i] = "running"]
              /\ spawned' = [spawned EXCEPT ![i] = @ + 1]
              /\ UNCHANGED res
         ELSE Finish(i, Outcome(TRUE, 0)) /\ UNCHANGED spawned
    /\ UNCHANGED <<stage, cfg, env, dirs, pc, max_workers, worklist, planned,
                   tasks, failures, reported, exitStatus, run, hist>>

\* line 65, second half: the command has written its output and exits
ChildExit2(i, out, rc) ==
    /\ stage = 2 /\ pc = "collect"
    /\ tpc[i] = "running"
    /\ LET d == OutDir2(tasks[i])
       IN  logs' = [logs EXCEPT ![d] = WriteAt0(@, out)]
    /\ tpc' = [tpc EXCEPT ![i] = "returned"]
    /\ res' = [res EXCEPT ![i] = Outcome(FALSE, rc)]
    /\ UNCHANGED <<stage, cfg, env, dirs, pc, max_workers, worklist, planned,
                   tasks, spawned, failures, reported, exitStatus, run, hist>>

\* _launch without lines 68-70: no marker is ever written
Mark2_NoMarker(i) ==
    /\ stage = 2 /\ pc = "collect"
    /\ tpc[i] = "returned"
    /\ tpc' = [tpc EXCEPT ![i] = "finished"]
    /\ UNCHANGED <<stage, cfg, env, dirs, logs, pc, max_workers, worklist, planned,
                   tasks, res, spawned, failures, reported, exitStatus, run, hist>>

\* _launch without the test of line 68: the marker follows every exit code
Mark2_MarkerOnAnyExit(i) ==
    /\ stage = 2 /\ pc = "collect"
    /\ tpc[i] = "returned"
    /\ LET d == OutDir2(tasks[i])
       IN  logs' = [logs EXCEPT ![d] = AppendTo(@, MarkerText)]
    /\ tpc' = [tpc EXCEPT ![i] = "finished"]
    /\ UNCHANGED <<stage, cfg, env, dirs, pc, max_workers, worklist, planned,
                   tasks, res, spawned, failures, reported, exitStatus, run, hist>>

\* lines 68-72: the marker is appended after a zero exit code
Mark2(i) ==
    /\ stage = 2 /\ pc = "collect"
    /\ tpc[i] = "returned"
    /\ LET d == OutDir2(tasks[i])
       IN  logs' = IF res[i].rc = 0
                     THEN [logs EXCEPT ![d] = AppendTo(@, MarkerText)]
                     ELSE logs
    /\ tpc' = [tpc EXCEPT ![i] = "finished"]
    /\ UNCHANGED <<stage, cfg, env, dirs, pc, max_workers, worklist, planned,
                   tasks, res, spawned, failures, reported, exitStatus, run, hist>>

-----------------------------------------------------------------------------
(* run_nuproducts.py: main collecting the futures *)

Key(u) == <<u.obsid, u.det, u.comb>>

\* a failure makes the pool drop the calls that are still queued
Collect2_CancelOnFailure(i) ==
    /\ stage = 2 /\ pc = "collect"
    /\ tpc[i] = "finished"
    /\ tpc' = [j \in 1..Len(tasks) |->
                 IF j = i THEN "collected"
                 ELSE IF tpc[j] = "queued" /\ (res[i].exc \/ res[i].rc # 0) THEN "cancelled"
                 ELSE tpc[j]]
    /\ reported' = [reported EXCEPT ![i] =
                       Append(@, IF res[i].exc THEN "exception"
                                 ELSE IF res[i].rc # 0 THEN "failed" ELSE "completed")]
    /\ failures' = IF res[i].exc
                     THEN Append(failures, [key |-> Key(tasks[i]), exc |-> TRUE, rc |-> 0])
                   ELSE IF res[i].rc # 0
                     THEN Append(failures, [key |-> Key(tasks[i]), exc |-> FALSE, rc |-> res[i].rc])
                   ELSE failures
    /\ UNCHANGED <<stage, cfg, env, dirs, logs, pc, max_workers, worklist, planned,
                   tasks, res, spawned, exitStatus, run, hist>>

\* the except branch records the integer 1 instead of the string "exception"
Collect2_ExceptionAsExitCode(i) ==
    /\ stage = 2 /\ pc = "collect"
    /\ tpc[i] = "finished"
    /\ tpc' = [tpc EXCEPT ![i] = "collected"]
    /\ reported' = [reported EXCEPT ![i] =
                       Append(@, IF res[i].exc THEN "exception"
                                 ELSE IF res[i].rc # 0 THEN "failed" ELSE "completed")]
    /\ failures' = IF res[i].exc
                     THEN Append(failures, [key |-> Key(tasks[i]), exc |-> FALSE, rc |-> 1])
                   ELSE IF res[i].rc # 0
                     THEN Append(failures, [key |-> Key(tasks[i]), exc |-> FALSE, rc |-> res[i].rc])
                   ELSE failures
    /\ UNCHANGED <<stage, cfg, env, dirs, logs, pc, max_workers, worklist, planned,
                   tasks, res, spawned, exitStatus, run, hist>>

\* failures kept per unit key: a second failure of the same key is dropped
Collect2_OneFailurePerKey(i) ==
    /\ stage = 2 /\ pc = "collect"
    /\ tpc[i] = "finished"
    /\ tpc' = [tpc EXCEPT ![i] = "collected"]
    /\ reported' = [reported EXCEPT ![i] =
                       Append(@, IF res[i].exc THEN "exception"
                                 ELSE IF res[i].rc # 0 THEN "failed" ELSE "completed")]
    /\ failures' = IF \E n \in 1..Len(failures) : failures[n].key = Key(tasks[i])
                     THEN failures
                   ELSE IF res[i].exc
                     THEN Append(failures, [key |-> Key(tasks[i]), exc |-> TRUE, rc |-> 0])
                   ELSE IF res[i].rc # 0
                     THEN Append(failures, [key |-> Key(tasks[i]), exc |-> FALSE, rc |-> res[i].rc])
                   ELSE failures
    /\ UNCHANGED <<stage, cfg, env, dirs, logs, pc, max_workers, worklist, planned,
                   tasks, res, spawned, exitStatus, run, hist>>

\* a collected success wipes the failures recorded before it
Collect2_SuccessClearsFailures(i) ==
    /\ stage = 2 /\ pc = "collect"
    /\ tpc[i] = "finished"
    /\ tpc' = [tpc EXCEPT ![i] = "collected"]
    /\ reported' = [reported EXCEPT ![i] =
                       Append(@, IF res[i].exc THEN "exception"
                                 ELSE IF res[i].rc # 0 THEN "failed" ELSE "completed")]
    /\ failures' = IF res[i].exc
                     THEN Append(failures, [key |-> Key(tasks[i]), exc |-> TRUE, rc |-> 0])
                   ELSE IF res[i].rc # 0
                     THEN Append(failures, [key |-> Key(tasks[i]), exc |-> FALSE, rc |-> res[i].rc])
                   ELSE <<>>
    /\ UNCHANGED <<stage, cfg, env, dirs, logs, pc, max_workers, worklist, planned,
                   tasks, res, spawned, exitStatus, run, hist>>

\* lines 109-128: one iteration of the as_completed loop
Collect2(i) ==
    /\ stage = 2 /\ pc = "collect"
    /\ tpc[i] = "finished"
    /\ tpc' = [tpc EXCEPT ![i] = "collected"]
    /\ reported' = [reported EXCEPT ![i] =
                       Append(@, IF res[i].exc THEN "exception"
                                 ELSE IF res[i].rc # 0 THEN "failed" ELSE "completed")]
    /\ failures' = IF res[i].exc
                     THEN Append(failures, [key |-> Key(tasks[i]), exc |-> TRUE, rc |-> 0])
                   ELSE IF res[i].rc # 0
                     THEN Append(failures, [key |-> Key(tasks[i]), exc |-> FALSE, rc |-> res[i].rc])
                   ELSE failures
    /\ UNCHANGED <<stage, cfg, env, dirs, logs, pc, max_workers, worklist, planned,
                   tasks, res, spawned, exitStatus, run, hist>>

\* the exit status taken from the last entry of failures only
Exit2_ExceptionsForgiven ==
    /\ stage = 2 /\ pc = "collect"
    /\ \A i \in 1..Len(tasks) : tpc[i] = "collected"
    /\ pc' = "done"
    /\ exitStatus' = IF failures # <<>> /\ ~failures[Len(failures)].exc THEN 1 ELSE 0
    /\ UNCHANGED <<stage, cfg, env, dirs, logs, max_workers, worklist, planned,
                   tasks, tpc, res, spawned, failures, reported, run, hist>>

\* lines 130-136: the loop is over, the pool is shut down, the process exits
Exit2 ==
    /\ stage = 2 /\ pc = "collect"
    /\ \A i \in 1..Len(tasks) : tpc[i] = "collected"
    /\ pc' = "done"
    /\ exitStatus' = IF failures # <<>> THEN 1 ELSE 0
    /\ UNCHANGED <<stage, cfg, env, dirs, logs, max_workers, worklist, planned,
                   tasks, tpc, res, spawned, failures, reported, run, hist>>

-----------------------------------------------------------------------------
(* run_nupipeline.py *)

Filler(n) == [k \in 1..n |-> "-"]

\* logs an observation's output directory can hold when a run starts: none,
\* an unfinished one, a finished one, one that finished for another
\* observation, the finished line as the 100th and as the 101st line from
\* the end, and one that cannot be read
OldLogs1(o) ==
    { NoFile,
      NewFile(<<"-">>),
      NewFile(<<"-", o>>),
      NewFile(<<"-", "9999">>),
      NewFile(<<o>> \o Filler(TailLines - 1)),
      NewFile(<<o>> \o Filler(TailLines)),
      Unreadable(<<"-", o>>) }

Envs1 ==
    [cpus : {1, MaxCpu}, jobs : {JobsAuto}]
      \cup [cpus : {1}, jobs : {JobsOff, JobsText} \cup {JobsInt(n) : n \in -1..MaxJobs}]

Init1 ==
    /\ stage = 1
    /\ cfg \in [observations : ObsLists]
    /\ env \in Envs1
    /\ LET D == {OutDir1(o) : o \in Range(cfg.observations)}
       IN  /\ logs \in [D -> UNION {OldLogs1(o) : o \in Range(cfg.observations)}]
           /\ \A o \in Range(cfg.observations) : logs[OutDir1(o)] \in OldLogs1(o)
           /\ dirs \in SUBSET D
           /\ \A d \in D : logs[d].exists => d \in dirs
    /\ Fresh
    /\ run = 1
    /\ hist = NoHist

\* main without the look-up of CALDB at line 84
Preflight1_IgnoresCaldb(headas, caldb, file) ==
    /\ stage = 1 /\ pc = "start"
    /\ IF ~headas \/ ~file
         THEN pc' = "fatal" /\ exitStatus' = 1 /\ UNCHANGED max_workers
       ELSE IF IntRaises(env.jobs)
         THEN pc' = "crashed" /\ exitStatus' = 1 /\ UNCHANGED max_workers
       ELSE /\ pc' = "plan"
            /\ max_workers' = ResolveWorkers(env.jobs, env.cpus)
            /\ UNCHANGED exitStatus
    /\ hist' = [hist EXCEPT !.pre = [headas |-> headas, caldb |-> caldb, files |-> file]]
    /\ UNCHANGED <<stage, cfg, env, dirs, logs, worklist, planned, tasks, tpc, res,
                   spawned, failures, reported, run>>

\* lines 84-107: environment, config file, worker count
Preflight1(headas, caldb, file) ==
    /\ stage = 1 /\ pc = "start"
    /\ IF ~(headas /\ caldb) \/ ~file
         THEN pc' = "fatal" /\ exitStatus' = 1 /\ UNCHANGED max_workers
       ELSE IF IntRaises(env.jobs)
         THEN pc' = "crashed" /\ exitStatus' = 1 /\ UNCHANGED max_workers
       ELSE /\ pc' = "plan"
            /\ max_workers' = ResolveWorkers(env.jobs, env.cpus)
            /\ UNCHANGED exitStatus
    /\ hist' = [hist EXCEPT !.pre = [headas |-> headas, caldb |-> caldb, files |-> file]]
    /\ UNCHANGED <<stage, cfg, env, dirs, logs, worklist, planned, tasks, tpc, res,
                   spawned, failures, reported, run>>

\* the planner without lines 127-128: the partial directory is kept
PlanCheck1_KeepsDirectory ==
    /\ stage = 1 /\ pc = "plan"
    /\ planned < Len(cfg.observations)
    /\ LET obs == cfg.observations[planned + 1]
           d == OutDir1(obs)
       IN  IF NeedsRerun1(logs[d], obs)
             THEN /\ pc' = "queue"
                  /\ hist' = [hist EXCEPT !.seen = logs[d]]
                  /\ UNCHANGED planned
             ELSE /\ planned' = planned + 1
                  /\ UNCHANGED <<pc, hist>>
    /\ UNCHANGED <<stage, cfg, env, dirs, logs, max_workers, worklist, tasks, tpc, res,
                   spawned, failures, reported, exitStatus, run>>

\* the planner wiping the output directory before it asks the detector
PlanCheck1_WipesSkipped ==
    /\ stage = 1 /\ pc = "plan"
    /\ planned < Len(cfg.observations)
    /\ LET obs == cfg.observations[planned + 1]
           d == OutDir1(obs)
       IN  /\ dirs' = dirs \ {d}
           /\ logs' = [logs EXCEPT ![d] = NoFile]
           /\ IF NeedsRerun1(logs[d], obs)
                THEN /\ pc' = "queue"
                     /\ hist' = [hist EXCEPT !.seen = logs[d]]
                     /\ UNCHANGED planned
                ELSE /\ planned' = planned + 1
                     /\ UNCHANGED <<pc, hist>>
    /\ UNCHANGED <<stage, cfg, env, max_workers, worklist, tasks, tpc, res, spawned,
                   failures, reported, exitStatus, run>>

\* the planner wiping a directory only when it holds no log: an unfinished
\* run is resumed in place
PlanCheck1_KeepsLoggedDirectory ==
    /\ stage = 1 /\ pc = "plan"
    /\ planned < Len(cfg.observations)
    /\ LET obs == cfg.observations[planned + 1]
           d == OutDir1(obs)
       IN  IF NeedsRerun1(logs[d], obs)
             THEN /\ dirs' = IF logs[d].exists THEN dirs ELSE dirs \ {d}
                  /\ pc' = "queue"
                  /\ hist' = [hist EXCEPT !.seen = logs[d]]
                  /\ UNCHANGED <<planned, logs>>
             ELSE /\ planned' = planned + 1
                  /\ UNCHANGED <<dirs, logs, pc, hist>>
    /\ UNCHANGED <<stage, cfg, env, max_workers, worklist, tasks, tpc, res, spawned,
                   failures, reported, exitStatus, run>>

\* lines 124-128 and 131-132: the next observation is looked at; one that
\* needs a rerun loses its output directory
PlanCheck1 ==
    /\ stage = 1 /\ pc = "plan"
    /\ planned < Len(cfg.observations)
    /\ LET obs == cfg.observations[planned + 1]
           d == OutDir1(obs)
       IN  IF NeedsRerun1(logs[d], obs)
             THEN /\ dirs' = dirs \ {d}
                  /\ logs' = [logs EXCEPT ![d] = NoFile]
                  /\ pc' = "queue"
                  /\ hist' = [hist EXCEPT !.seen = logs[d]]
                  /\ UNCHANGED planned
             ELSE /\ planned' = planned + 1
                  /\ UNCHANGED <<dirs, logs, pc, hist>>
    /\ UNCHANGED <<stage, cfg, env, max_workers, worklist, tasks, tpc, res, spawned,
                   failures, reported, exitStatus, run>>

\* lines 129-130: the observation is queued
PlanQueue1 ==
    /\ stage = 1 /\ pc = "queue"
    /\ worklist' = Append(worklist, cfg.observations[planned + 1])
    /\ planned' = planned + 1
    /\ pc' = "plan"
    /\ hist' = [hist EXCEPT !.seen = NoFile]
    /\ UNCHANGED <<stage, cfg, env, dirs, logs, max_workers, tasks, tpc, res, spawned,
                   failures, reported, exitStatus, run>>

\* main without lines 134-136: the pool is made for an empty worklist too
Submit1_NoEarlyReturn ==
    /\ stage = 1 /\ pc = "plan"
    /\ planned = Len(cfg.observations)
    /\ IF max_workers <= 0
         THEN /\ pc' = "crashed" /\ exitStatus' = 1
              /\ UNCHANGED <<tasks, tpc, res, spawned, reported>>
         ELSE /\ tasks' = worklist
              /\ tpc' = [i \in 1..Len(worklist) |-> "queued"]
              /\ res' = [i \in 1..Len(worklist) |-> NoOutcome]
              /\ spawned' = [i \in 1..Len(worklist) |-> 0]
              /\ reported' = [i \in 1..Len(worklist) |-> <<>>]
              /\ pc' = "collect"
              /\ UNCHANGED exitStatus
    /\ UNCHANGED <<stage, cfg, env, dirs, logs, max_workers, worklist, planned,
                   failures, run, hist>>

\* lines 134-144: nothing to do, or the pool is made and the worklist submitted;
\* ProcessPoolExecutor raises ValueError when max_workers <= 0
Submit1 ==
    /\ stage = 1 /\ pc = "plan"
    /\ planned = Len(cfg.observations)
    /\ IF worklist = <<>>
         THEN /\ pc' = "done" /\ exitStatus' = 0
              /\ UNCHANGED <<tasks, tpc, res, spawned, reported>>
       ELSE IF max_workers <= 0
         THEN /\ pc' = "crashed" /\ exitStatus' = 1
              /\ UNCHANGED <<tasks, tpc, res, spawned, reported>>
       ELSE /\ tasks' = worklist
            /\ tpc' = [i \in 1..Len(worklist) |-> "queued"]
            /\ res' = [i \in 1..Len(worklist) |-> NoOutcome]
            /\ spawned' = [i \in 1..Len(worklist) |-> 0]
            /\ reported' = [i \in 1..Len(worklist) |-> <<>>]
            /\ pc' = "collect"
            /\ UNCHANGED exitStatus
    /\ UNCHANGED <<stage, cfg, env, dirs, logs, max_workers, worklist, planned,
                   failures, run, hist>>

\* _launch_one, lines 65-74: the worker takes the call and starts
\* ./nupipe_one.sh, which can raise; the script makes the output directory
\* and begins its log there
Launch1(i, starts) ==
    /\ stage = 1 /\ pc \in {"collect", "abort"}
    /\ HeadOfQueue(i)
    /\ IF starts
         THEN /\ tpc' = [tpc EXCEPT ![i] = "running"]
              /\ spawned' = [spawned EXCEPT ![i] = @ + 1]
              /\ dirs' = dirs \cup {OutDir1(tasks[i])}
              /\ logs' = [logs EXCEPT ![OutDir1(tasks[i])] = NewFile(<<"-">>)]
              /\ UNCHANGED res
         ELSE /\ Finish(i, Outcome(TRUE, 0))
              /\ UNCHANGED <<spawned, dirs, logs>>
    /\ UNCHANGED <<stage, cfg, env, pc, max_workers, worklist, planned, tasks,
                   failures, reported, exitStatus, run, hist>>

\* the finished line the script writes at the end of a successful run
ToolLog1(obsid, rc) == IF rc = 0 THEN <<obsid>> ELSE <<"-">>

\* line 74: ./nupipe_one.sh exits and subprocess.call returns its exit code
ChildExit1(i, rc) ==
    /\ stage = 1 /\ pc \in {"collect", "abort"}
    /\ tpc[i] = "running"
    /\ logs' = [logs EXCEPT ![OutDir1(tasks[i])] = AppendTo(@, ToolLog1(tasks[i], rc))]
    /\ Finish(i, Outcome(FALSE, rc))
    /\ UNCHANGED <<stage, cfg, env, dirs, pc, max_workers, worklist, planned, tasks,
                   spawned, failures, reported, exitStatus, run, hist>>

\* lines 145-156: one iteration of the as_completed loop; fut.result()
\* re-raises what the launcher raised
Collect1(i) ==
    /\ stage = 1 /\ pc = "collect"
    /\ tpc[i] = "finished"
    /\ tpc' = [tpc EXCEPT ![i] = "collected"]
    /\ IF res[i].exc
         THEN pc' = "abort" /\ UNCHANGED reported
         ELSE /\ reported' = [reported EXCEPT ![i] =
                     Append(@, IF res[i].rc # 0 THEN "failed" ELSE "completed")]
              /\ UNCHANGED pc
    /\ UNCHANGED <<stage, cfg, env, dirs, logs, max_workers, worklist, planned, tasks,
                   res, spawned, failures, exitStatus, run, hist>>

\* the with block is left: the pool is shut down, which waits for every
\* submitted call; main returns, or the exception leaves main
Exit1 ==
    /\ stage = 1
    /\ \/ pc = "collect" /\ \A i \in 1..Len(tasks) : tpc[i] = "collected"
       \/ pc = "abort" /\ \A i \in 1..Len(tasks) : tpc[i] \in {"finished", "collected"}
    /\ pc' = (IF pc = "abort" THEN "crashed" ELSE "done")
    /\ exitStatus' = (IF pc = "abort" THEN 1 ELSE 0)
    /\ UNCHANGED <<stage, cfg, env, dirs, logs, max_workers, worklist, planned, tasks,
                   tpc, res, spawned, failures, reported, run, hist>>

-----------------------------------------------------------------------------
(* The operator starts the same script again with the same configuration *)

AllOk == /\ pc = "done"
         /\ \A i \in 1..Len(tasks) : ~res[i].exc /\ res[i].rc = 0

\* the directories of the units that are with a worker
CutOff ==
    IF stage = 1 THEN {OutDir1(tasks[i]) : i \in InFlight}
    ELSE {OutDir2(tasks[i]) : i \in InFlight}

\* The run is cut short while units are with a worker: the process group
\* is killed (a signal from the terminal or the batch system, a reboot), so
\* main, the workers and the commands they run all end where they are and
\* only the files stay.  The shell reports 128 + 9.  (A kill of the last run
\* that is followed has no next run to be seen in and is left out.)
Kill ==
    /\ pc \in {"collect", "abort"}
    /\ InFlight # {}
    /\ run < MaxRuns
    /\ pc' = "killed"
    /\ exitStatus' = 137
    /\ hist' = [hist EXCEPT !.cut = CutOff]
    /\ max_workers' = 0
    /\ worklist' = <<>>
    /\ planned' = 0
    /\ tasks' = <<>>
    /\ tpc' = <<>>
    /\ res' = <<>>
    /\ spawned' = <<>>
    /\ failures' = <<>>
    /\ reported' = <<>>
    /\ UNCHANGED <<stage, cfg, env, dirs, logs, run>>

Rerun ==
    /\ pc \in {"done", "fatal", "crashed", "killed"}
    /\ run < MaxRuns
    /\ run' = run + 1
    /\ hist' = [prevOk |-> AllOk,
                 prevRan |-> AllOk /\ \E i \in 1..Len(tasks) : spawned[i] > 0,
                 seen |-> NoFile,
                 pre |-> PreOk,
                 cut |-> IF pc = "killed" THEN hist.cut ELSE {},
                 given |-> hist.given]
    /\ pc' = "start"
    /\ max_workers' = 0
    /\ worklist' = <<>>
    /\ planned' = 0
    /\ tasks' = <<>>
    /\ tpc' = <<>>
    /\ res' = <<>>
    /\ spawned' = <<>>
    /\ failures' = <<>>
    /\ reported' = <<>>
    /\ exitStatus' = -1
    /\ UNCHANGED <<stage, cfg, env, dirs, logs>>

Next2 ==
    \/ \E f, h, c \in BOOLEAN : Preflight2(f, h, c)
    \/ Submit2
    \/ \E i \in 1..Len(tasks) : LaunchBegin(i)
    \/ \E i \in 1..Len(tasks), s \in BOOLEAN : Call2(i, s)
    \/ \E i \in 1..Len(tasks), out \in ToolOutputs, rc \in ExitCodes : ChildExit2(i, out, rc)
    \/ \E i \in 1..Len(tasks) : Mark2(i)
    \/ \E i \in 1..Len(tasks) : Collect2(i)
    \/ Exit2
    \/ Rerun

SpecProducts == Init2 /\ [][Next2]_vars

Next1 ==
    \/ \E h, c, f \in BOOLEAN : Preflight1(h, c, f)
    \/ PlanCheck1
    \/ PlanQueue1
    \/ Submit1
    \/ \E i \in 1..Len(tasks), s \in BOOLEAN : Launch1(i, s)
    \/ \E i \in 1..Len(tasks), rc \in ExitCodes : ChildExit1(i, rc)
    \/ \E i \in 1..Len(tasks) : Collect1(i)
    \/ Exit1
    \/ Rerun

SpecPipeline == Init1 /\ [][Next1]_vars

Init == Init1 \/ Init2

Next == Next1 \/ Next2

Spec == Init /\ [][Next]_vars

\* the same with runs that can be killed; what comes after a run that ended
\* by itself is followed under Spec and not here
NextInterrupted ==
    \/ pc \notin {"done", "fatal", "crashed"} /\ Next
    \/ Kill

\* the first run starts over logs that can all be read: a log that cannot
\* be read never gets its unit as far as a command
InitInterrupted == Init /\ \A d \in DOMAIN logs : ~ReadRaises(logs[d])

SpecInterrupted == InitInterrupted /\ [][NextInterrupted]_vars

\* run_nuproducts with its inputs fixed: one run that passes the pre-flight
\* checks, whose commands all start, the command of a unit key exiting
\* with the code given for that key
InitFixed ==
    /\ stage = 2
    /\ cfg \in Configs2
    /\ env \in Envs2
    /\ LET D == {OutDir2(u) : u \in Range(Tasks2(cfg))}
       IN  /\ logs \in [D -> OldLogs2]
           /\ Cardinality({d \in D : ReadRaises(logs[d])}) <= 1
           /\ dirs = {d \in D : logs[d].exists}
    /\ Fresh
    /\ run = 1
    /\ \E c \in [{Key(u) : u \in Range(Tasks2(cfg))} -> ExitCodes] :
          hist = [NoHist EXCEPT !.given = [codes |-> c, logs0 |-> logs]]

NextFixed ==
    \/ Preflight2(TRUE, TRUE, TRUE)
    \/ Submit2
    \/ \E i \in 1..Len(tasks) : LaunchBegin(i)
    \/ \E i \in 1..Len(tasks) : Call2(i, TRUE)
    \/ \E i \in 1..Len(tasks), out \in ToolOutputs :
          ChildExit2(i, out, hist.given.codes[Key(tasks[i])])
    \/ \E i \in 1..Len(tasks) : Mark2(i)
    \/ \E i \in 1..Len(tasks) : Collect2(i)
    \/ Exit2

SpecFixedInputs == InitFixed /\ [][NextFixed]_vars

-----------------------------------------------------------------------------
(* Properties *)

Tasks == 1..Len(tasks)

FailureOutcome(i) == res[i].exc \/ res[i].rc # 0

LogOf2(i) == logs[OutDir2(tasks[i])]

\* C1: when run_nuproducts.main has collected every future and exits, the
\* exit status is 0 if and only if no unit produced a failure outcome (a
\* non-zero exit code or an exception of the launcher), and 1 otherwise,
\* whatever the outcomes and the order in which the units completed.
C1_ExitCodeLaw ==
    (stage = 2 /\ pc = "done") =>
        /\ exitStatus \in {0, 1}
        /\ exitStatus = 0 <=> \A i \in Tasks : ~FailureOutcome(i)

\* a run with a success, a failed command and a launcher exception, the
\* exception collected before the failure of an earlier unit
C1_Witness ==
    /\ stage = 2 /\ pc = "done" /\ exitStatus = 1
    /\ \E i, j, k \in Tasks :
          /\ i < j
          /\ ~res[i].exc /\ res[i].rc # 0
          /\ res[j].exc
          /\ ~FailureOutcome(k) /\ spawned[k] = 1
    /\ Len(failures) = 2 /\ failures[1].exc

\* C2: run_nupipeline.main exits with status 1 whenever a dispatched
\* observation's command returned a non-zero exit code, and with status 0
\* when all of them returned 0 or nothing was queued.
C2_ExitStatusReflectsFailures ==
    (stage = 1 /\ pc \in {"done", "crashed"} /\ \A i \in Tasks : ~res[i].exc) =>
        /\ (\E i \in Tasks : res[i].rc # 0) => exitStatus = 1
        /\ (\A i \in Tasks : res[i].rc = 0) /\ pc = "done" => exitStatus = 0

RECURSIVE MarkCount(_)
MarkCount(text) ==
    IF text = <<>> THEN 0
    ELSE (IF Head(text) = "M" THEN 1 ELSE 0) + MarkCount(Tail(text))

\* C3: when the _launch of a unit returns after its subprocess call, the
\* completion marker is in the unit's log if and only if the call returned
\* 0; and the marker is only ever written by a launcher whose call has
\* returned 0.
C3_MarkerIffZeroExit ==
    [][stage = 2 =>
        /\ \A i \in Tasks :
              (tpc[i] = "returned" /\ tpc'[i] = "finished") =>
                  (FIN_RE_search(logs'[OutDir2(tasks[i])].text) <=> res[i].rc = 0)
        /\ \A d \in DOMAIN logs :
              MarkCount(logs'[d].text) > MarkCount(logs[d].text) =>
                  \E i \in Tasks : /\ OutDir2(tasks[i]) = d
                                   /\ tpc[i] = "returned" /\ res[i].rc = 0
                                   /\ tpc'[i] = "finished"
      ]_vars

\* C4: in run_nuproducts, whichever units fail, main logs exactly one
\* outcome for every submitted unit (none lost, none twice), the outcome of
\* every unit that did not fail is a success, and while a unit is still
\* queued or in flight the pool can always go on: a failure neither cancels
\* nor blocks another unit.
C4_FailureIsolation ==
    stage = 2 =>
        /\ pc = "collect" =>
              \A i \in Tasks : Len(reported[i]) = (IF tpc[i] = "collected" THEN 1 ELSE 0)
        /\ pc = "done" =>
              \A i \in Tasks : /\ Len(reported[i]) = 1
                               /\ ~FailureOutcome(i) => reported[i] = <<"completed">>
        /\ (pc = "collect" /\ \E i \in Tasks : tpc[i] # "collected") =>
              \E i \in Tasks : \/ tpc[i] \in {"call", "running", "returned", "finished"}
                               \/ HeadOfQueue(i)

\* one worker: the first unit's command failed while the others were still
\* queued, and a later unit ran its command and was reported as a success
C4_Witness ==
    /\ stage = 2 /\ pc = "done" /\ max_workers = 1
    /\ \E i, j \in Tasks :
          /\ i < j
          /\ spawned[i] = 1 /\ ~res[i].exc /\ res[i].rc # 0
          /\ spawned[j] = 1 /\ reported[j] = <<"completed">>

\* C5: in run_nupipeline, an exception raised while launching one
\* observation's command becomes a failure outcome of that observation and
\* does not propagate: main still collects and reports the outcome of every
\* submitted observation and runs to its end.
C5_LaunchExceptionBecomesFailure ==
    (stage = 1 /\ pc \in {"done", "crashed"} /\ tasks # <<>>) =>
        /\ pc = "done"
        /\ \A i \in Tasks : /\ Len(reported[i]) = 1
                            /\ res[i].exc => reported[i] # <<"completed">>

NumFailureEntries(k, e) ==
    Cardinality({n \in 1..Len(failures) : failures[n].key = k /\ failures[n].exc = e})

\* C6: in run_nuproducts, an exception raised in a unit's launcher is
\* recorded as exactly one entry of failures for that unit, tagged as an
\* exception and not as an exit code; the outcomes of all other units are
\* still collected, and the exit status is 1.
C6_ExceptionIsOneFailure ==
    (stage = 2 /\ pc = "done") =>
        \A i \in Tasks :
            res[i].exc =>
                /\ reported[i] = <<"exception">>
                /\ NumFailureEntries(Key(tasks[i]), TRUE)
                     = Cardinality({j \in Tasks : Key(tasks[j]) = Key(tasks[i]) /\ res[j].exc})
                /\ \A j \in Tasks : Len(reported[j]) = 1
                /\ exitStatus = 1

\* the command of one unit could not be started, another unit ran and
\* succeeded after that exception had been collected
C6_Witness ==
    /\ stage = 2 /\ pc = "done"
    /\ \E i, j \in Tasks :
          /\ i # j
          /\ res[i].exc /\ logs[OutDir2(tasks[i])].text = <<>>
          /\ reported[j] = <<"completed">> /\ spawned[j] = 1
    /\ Len(failures) = 1

\* a finished line for the observation anywhere in the log
HasFinished(text, o) == \E k \in 1..Len(text) : text[k] = o

\* a finished line for the observation among the last 100 lines
HasFinishedInTail(text, o) == HasFinished(LastLines(text), o)

\* the observation the stage-1 planner is looking at
PlanObs == cfg.observations[planned + 1]

\* the planner takes its decision about PlanObs in this step
PlanDecides ==
    /\ stage = 1 /\ pc = "plan" /\ planned < Len(cfg.observations)
    /\ pc' = "queue" \/ planned' # planned

\* C7 as stated: the stage-1 planner queues every observation whose log
\* exists and lacks the finished marker for it, after removing its output
\* directory, and never queues an observation whose (readable) log contains
\* the finished marker for it.
C7_PlannerResume ==
    [][ /\ PlanDecides =>
            LET f == logs[OutDir1(PlanObs)]
            IN  /\ (f.exists /\ ~HasFinished(f.text, PlanObs)) =>
                       (pc' = "queue" /\ OutDir1(PlanObs) \notin dirs')
                /\ (f.exists /\ f.readable /\ HasFinished(f.text, PlanObs)) =>
                       (pc' = "plan" /\ worklist' = worklist /\ dirs' = dirs)
        /\ (stage = 1 /\ pc = "queue" /\ pc' = "plan") =>
               /\ OutDir1(PlanObs) \notin dirs
               /\ worklist' = Append(worklist, PlanObs)
               /\ ~(/\ hist.seen.exists /\ hist.seen.readable
                    /\ HasFinished(hist.seen.text, PlanObs))
        /\ (stage = 1 /\ worklist' # worklist /\ worklist' # <<>>) => pc = "queue"
      ]_vars

\* C7 as amended: the same, where the observation that is never queued is
\* one whose log can be read and has the finished marker for it among its
\* last 100 lines.
C7_PlannerResumeTail ==
    [][ /\ PlanDecides =>
            LET f == logs[OutDir1(PlanObs)]
            IN  /\ (f.exists /\ ~HasFinished(f.text, PlanObs)) =>
                       (pc' = "queue" /\ OutDir1(PlanObs) \notin dirs')
                /\ (f.exists /\ f.readable /\ HasFinishedInTail(f.text, PlanObs)) =>
                       (pc' = "plan" /\ worklist' = worklist /\ dirs' = dirs)
        /\ (stage = 1 /\ pc = "queue" /\ pc' = "plan") =>
               /\ OutDir1(PlanObs) \notin dirs
               /\ worklist' = Append(worklist, PlanObs)
               /\ ~(/\ hist.seen.exists /\ hist.seen.readable
                    /\ HasFinishedInTail(hist.seen.text, PlanObs))
        /\ (stage = 1 /\ worklist' # worklist /\ worklist' # <<>>) => pc = "queue"
      ]_vars

\* the first observation was finished and has been skipped; the second had
\* an unfinished log, its directory is gone and it is about to be queued
C7_Witness ==
    /\ stage = 1 /\ pc = "queue" /\ planned = 1 /\ worklist = <<>>
    /\ LET f == logs[OutDir1(cfg.observations[1])]
       IN  f.exists /\ f.readable /\ HasFinishedInTail(f.text, cfg.observations[1])
    /\ hist.seen.exists /\ hist.seen.readable
    /\ ~HasFinished(hist.seen.text, PlanObs)
    /\ OutDir1(PlanObs) \notin dirs

C9_SecondRunDoesNothing ==
    hist.prevOk =>
        /\ worklist = <<>> /\ pc # "queue"
        /\ \A i \in Tasks : spawned[i] = 0 /\ tpc[i] \in {"queued", "finished", "collected"}

\* the second run of run_nuproducts has ended; the first one had executed
\* commands, all of which returned 0
C9_Witness ==
    /\ stage = 2 /\ run = 2 /\ pc = "done"
    /\ hist.prevOk /\ hist.prevRan
    /\ Len(tasks) >= 2 /\ exitStatus = 0

\* C10: when _launch finds the marker in the unit's log, it returns a
\* success outcome, starts no command and changes no log.
C10_RecheckShortCircuits ==
    [][ (stage = 2 /\ pc = "collect") =>
          \A i \in Tasks :
              ( /\ tpc[i] = "queued" /\ tpc'[i] # "queued"
                /\ ~ReadRaises(LogOf2(i)) /\ FIN_RE_search(LogOf2(i).text) ) =>
                  /\ tpc'[i] = "finished"
                  /\ res'[i] = Outcome(FALSE, 0)
                  /\ spawned' = spawned
                  /\ logs' = logs
      ]_vars

\* a launcher has returned success for a unit that an earlier run had
\* completed, without starting a command
C10_Witness ==
    /\ stage = 2 /\ run = 1
    /\ \E i \in Tasks :
          /\ tpc[i] = "finished" /\ spawned[i] = 0
          /\ res[i] = Outcome(FALSE, 0)
          /\ FIN_RE_search(LogOf2(i).text)

\* C11: in both stages, when the completion detector is asked about a log
\* that exists and cannot be read, it answers "not complete" without
\* raising: the stage-1 planner queues the observation, the stage-2
\* launcher goes on to run the command, and no exception becomes the
\* outcome of the unit.
C11_ReadErrorMeansRerun ==
    [][ /\ (PlanDecides /\ ReadRaises(logs[OutDir1(PlanObs)])) => pc' = "queue"
        /\ (stage = 2 /\ pc = "collect") =>
              \A i \in Tasks :
                  (tpc[i] = "queued" /\ tpc'[i] # "queued" /\ ReadRaises(LogOf2(i))) =>
                      (tpc'[i] = "call" /\ ~res'[i].exc)
      ]_vars

\* C12: in both stages, when the log of a unit does not exist, the
\* completion detector answers "not complete" and raises nothing: the
\* stage-1 planner queues the observation, and the stage-2 launcher goes on
\* to run the command with no exception as its outcome.
C12_AbsentLogMeansRerun ==
    [][ /\ (PlanDecides /\ ~logs[OutDir1(PlanObs)].exists) => pc' = "queue"
        /\ (stage = 2 /\ pc = "collect") =>
              \A i \in Tasks :
                  (tpc[i] = "queued" /\ tpc'[i] # "queued" /\ ~LogOf2(i).exists) =>
                      (tpc'[i] = "call" /\ res'[i] = res[i] /\ ~res'[i].exc)
      ]_vars

\* a stage-2 launcher has found no log in its directory and is about to
\* run the command, while another unit's launcher has skipped a complete one
C12_Witness ==
    /\ stage = 2 /\ pc = "collect"
    /\ \E i, j \in Tasks :
          /\ tpc[i] = "call" /\ ~LogOf2(i).exists /\ spawned[i] = 0
          /\ tpc[j] = "finished" /\ spawned[j] = 0 /\ ~res[j].exc

\* line k of the text is one of its last 100 lines and is a finished line
\* for the observation
FinishedLineInWindow(text, o) ==
    \E k \in 1..Len(text) : k > Len(text) - 100 /\ text[k] = o

\* C13: the stage-1 detector reports an observation complete (the planner
\* passes it over) if and only if its log exists and one of its last 100
\* lines is a finished line whose id equals the observation's id; a finished
\* line for another id, or one more than 100 lines from the end, does not
\* count.  (The log is one that can be read.)
C13_DetectorTail100 ==
    [][ (PlanDecides /\ ~ReadRaises(logs[OutDir1(PlanObs)])) =>
            LET f == logs[OutDir1(PlanObs)]
            IN  /\ (pc' = "plan" /\ planned' = planned + 1 /\ worklist' = worklist)
                     <=> (f.exists /\ FinishedLineInWindow(f.text, PlanObs))
                /\ (pc' = "queue") <=> NeedsRerun1(f, PlanObs)
      ]_vars

\* the first observation has its finished line exactly 100 lines from the
\* end and was passed over; the second has it 101 lines from the end and is
\* about to be queued
C13_Witness ==
    /\ stage = 1 /\ run = 1 /\ pc = "queue" /\ planned = 1 /\ worklist = <<>>
    /\ cfg.observations[1] # cfg.observations[2]
    /\ LET f == logs[OutDir1(cfg.observations[1])]
       IN  /\ f.readable /\ Len(f.text) = 100
           /\ f.text[1] = cfg.observations[1]
    /\ hist.seen.readable /\ Len(hist.seen.text) = 101
    /\ hist.seen.text[1] = PlanObs

\* C14: when the stage-1 planner has gone through the whole observation
\* list and queued nothing, main makes no pool, starts no command, touches
\* no directory, and the process ends with exit status 0, whatever the
\* worker count is; and a pool only ever exists for a non-empty worklist.
C14_EmptyWorklistExitsZero ==
    [][ /\ (stage = 1 /\ pc = "plan" /\ planned = Len(cfg.observations)
              /\ worklist = <<>>) =>
               /\ pc' = "done" /\ exitStatus' = 0
               /\ tasks' = <<>> /\ tpc' = <<>> /\ spawned' = <<>>
               /\ dirs' = dirs /\ logs' = logs
        /\ (stage = 1 /\ pc' \in {"collect", "abort"}) => worklist # <<>>
      ]_vars

\* two observations, both finished by an earlier run: the run has ended
\* with status 0 and has submitted nothing
C14_Witness ==
    /\ stage = 1 /\ run = 1 /\ pc = "done" /\ exitStatus = 0
    /\ Len(cfg.observations) = 2 /\ planned = 2
    /\ worklist = <<>> /\ tasks = <<>>
    /\ \A k \in 1..2 : ~NeedsRerun1(logs[OutDir1(cfg.observations[k])], cfg.observations[k])
    /\ max_workers <= 0

\* C15: once run_nupipeline.main has resolved the worker count, "auto" has
\* given max(1, cpu_count // 2), "off" has given 1, an explicit positive
\* integer n has given n, and the resolved count is at least 1.
C15_WorkerCountResolution ==
    (stage = 1 /\ pc \notin {"start", "fatal"} /\ ~IntRaises(env.jobs)) =>
        /\ env.jobs.kind = "auto" =>
              max_workers = (IF env.cpus \div 2 >= 1 THEN env.cpus \div 2 ELSE 1)
        /\ env.jobs.kind = "off" => max_workers = 1
        /\ (env.jobs.kind = "int" /\ env.jobs.n > 0) => max_workers = env.jobs.n
        /\ max_workers >= 1

PreflightFailed == ~(hist.pre.headas /\ hist.pre.caldb /\ hist.pre.files)

\* C16: in both stages, when HEADAS or CALDB is unset or a configuration
\* file is missing, the process ends with a non-zero exit status in its
\* pre-flight step: nothing has been planned or submitted, no command was
\* started, and no output directory or log was removed, made or changed.
C16_ConfigErrorsAbortEarly ==
    [][ /\ PreflightFailed' =>
              /\ pc' \in {"fatal", "crashed"}
              /\ exitStatus' >= 1
              /\ worklist' = <<>> /\ planned' = 0
              /\ tasks' = <<>> /\ tpc' = <<>> /\ spawned' = <<>>
        /\ (pc = "start" /\ PreflightFailed') => (dirs' = dirs /\ logs' = logs)
      ]_vars

\* stage 1 was started without CALDB over a directory holding an unfinished
\* log: the process is over and the directory is still there
C16_Witness ==
    /\ stage = 1 /\ pc = "fatal" /\ exitStatus = 1
    /\ hist.pre.headas /\ ~hist.pre.caldb /\ hist.pre.files
    /\ \E k \in 1..Len(cfg.observations) :
          LET o == cfg.observations[k]
          IN  /\ OutDir1(o) \in dirs
              /\ logs[OutDir1(o)].exists /\ NeedsRerun1(logs[OutDir1(o)], o)

\* the units whose external command is executing
Executing == {i \in Tasks : tpc[i] = "running"}

\* the units a worker is busy with
WithWorker == {i \in Tasks : tpc[i] \in {"call", "running", "returned"}}

\* C17: in every state of a run that has a pool, the number of units whose
\* command is executing, and the number of units a worker is busy with, is
\* at most the resolved worker count, which is at least 1; with a worker
\* count of 1 at most one command executes at a time and a command only
\* starts when no other unit is with a worker.
C17_BoundedPool ==
    [][ tasks' # <<>> =>
          /\ max_workers' >= 1
          /\ Cardinality(Executing') <= max_workers'
          /\ Cardinality(WithWorker') <= max_workers'
          /\ max_workers = 1 =>
                \A i \in Tasks :
                    (i \in DOMAIN spawned' /\ spawned'[i] > spawned[i]) =>
                        WithWorker \subseteq {i}
      ]_vars

\* a pool of two workers, both running a command, and a third unit waiting
C17_Witness ==
    /\ max_workers = 2
    /\ Cardinality(Executing) = 2
    /\ \E i \in Tasks : tpc[i] = "queued"

\* the output directory of a submitted unit
OutDirOf(i) == IF stage = 1 THEN OutDir1(tasks[i]) ELSE OutDir2(tasks[i])

\* C18: whatever the configuration (lists with repeated values included),
\* no two units that are with a worker at the same time have the same
\* output directory, and in one run at most one unit starts a command
\* writing to the log of a given directory.
C18_NoSharedOutputDir ==
    /\ \A i, j \in Tasks :
          (i # j /\ i \in WithWorker /\ j \in WithWorker) => OutDirOf(i) # OutDirOf(j)
    /\ \A d \in DOMAIN logs :
          Cardinality({i \in Tasks : OutDirOf(i) = d /\ spawned[i] > 0}) <= 1

\* the n-th unit of stage 2 in the iteration order of the configuration:
\* the bin size changes fastest, then the annulus, the source radius, the
\* detector (A before B), and the observation slowest
UnitAt(c, n) ==
    LET nb == Len(c.bin_sizes)
        na == Len(c.bkg_annuli)
        nr == Len(c.src_radii)
        z == n - 1
        b == (z % nb) + 1
        a == ((z \div nb) % na) + 1
        r == ((z \div (nb * na)) % nr) + 1
        d == ((z \div (nb * na * nr)) % 2) + 1
        o == (z \div (nb * na * nr * 2)) + 1
    IN  [obsid |-> c.observations[o],
         det |-> IF d = 1 THEN "A" ELSE "B",
         comb |-> <<c.src_radii[r], c.bkg_annuli[a][1], c.bkg_annuli[a][2], c.bin_sizes[b]>>]

NumUnits(c) ==
    Len(c.observations) * 2 * Len(c.src_radii) * Len(c.bkg_annuli) * Len(c.bin_sizes)

\* s is t with some of its elements left out, the others in the order of t
RECURSIVE IsSubSeqOf(_, _)
IsSubSeqOf(s, t) ==
    IF s = <<>> THEN TRUE
    ELSE IF t = <<>> THEN FALSE
    ELSE IF Head(s) = Head(t) THEN IsSubSeqOf(Tail(s), Tail(t)) \/ IsSubSeqOf(s, Tail(t))
    ELSE IsSubSeqOf(s, Tail(t))

\* C19: the units are submitted in the iteration order of the
\* configuration.  Stage 1: the planner goes through the observation list
\* from front to back and appends what needs a rerun, so the worklist is in
\* list order, and it is submitted as it is.  Stage 2: the n-th submitted
\* unit is the n-th element of observation x (A, B) x source radius x
\* annulus x bin size.  All units are submitted before any of them runs,
\* the submitted sequence never changes afterwards, and the pool takes the
\* queued units in that order, whatever has completed.
C19_SubmissionOrder ==
    [][ /\ (stage = 1 /\ pc' \in {"plan", "queue"}) =>
              /\ IsSubSeqOf(worklist', SubSeq(cfg.observations, 1, planned'))
              /\ PlanDecides => (pc' = "queue" <=> NeedsRerun1(logs[OutDir1(PlanObs)], PlanObs))
              /\ worklist' # worklist => worklist' = Append(worklist, PlanObs)
        /\ (stage = 1 /\ tasks' # <<>>) => tasks' = worklist
        /\ (stage = 2 /\ tasks' # <<>>) =>
              /\ Len(tasks') = NumUnits(cfg)
              /\ \A n \in 1..Len(tasks') : tasks'[n] = UnitAt(cfg, n)
        /\ (tasks = <<>> /\ tasks' # <<>>) => \A n \in 1..Len(tasks') : tpc'[n] = "queued"
        /\ \A i \in Tasks :
              (i \in DOMAIN tpc' /\ tpc[i] = "queued" /\ tpc'[i] # "queued") =>
                  \A j \in 1..(i - 1) : tpc[j] # "queued"
      ]_vars

\* four stage-2 units from two radii; the second one has completed and was
\* collected while the first is still running and the last is still queued
C19_Witness ==
    /\ stage = 2 /\ pc = "collect" /\ Len(tasks) = 4
    /\ Len(cfg.src_radii) = 2 /\ cfg.src_radii[1] # cfg.src_radii[2]
    /\ tpc[1] = "running" /\ tpc[2] = "collected" /\ tpc[4] = "queued"
    /\ tasks[2].det = "A" /\ tasks[2].comb[1] = cfg.src_radii[2]
    /\ tasks[3].det = "B" /\ tasks[3].comb[1] = cfg.src_radii[1]

\* the submitted units of the directory d
UnitsOf(d) == {i \in Tasks : OutDirOf(i) = d}

\* the detector, asked about the directory d, answers "not complete"
DetectsIncomplete(d) ==
    IF stage = 1 THEN NeedsRerun1(logs[d], d[2])
    ELSE ~ReadRaises(logs[d]) /\ NeedsRerun2(logs[d])

\* C20: a run was killed while units were with a worker (their launch
\* begun, their marker not yet written by it).  In the next run, for the
\* directory d of each such unit: until a unit of d is taken by a worker the
\* detector finds d incomplete; the unit is submitted again; the first unit
\* of d a worker takes executes the command; and in stage 1 the planner
\* removes d before it queues the observation, so that d is gone when the
\* pool is made.
C20_KilledUnitRunsAgain ==
    [][ \A d \in hist'.cut :
          /\ \/ DetectsIncomplete(d)'
             \/ \E i \in Tasks' : tpc'[i] # "queued" /\ OutDirOf(i)' = d
          /\ (tasks = <<>> /\ tasks' # <<>>) =>
                /\ UnitsOf(d)' # {}
                /\ stage = 1 => d \notin dirs
          /\ (PlanDecides /\ OutDir1(PlanObs) = d) =>
                (pc' = "queue" /\ d \notin dirs')
          /\ (tasks # <<>> /\ tasks' # <<>>) =>
                \A i \in Tasks :
                    ( /\ tpc[i] = "queued" /\ tpc'[i] # "queued"
                      /\ OutDirOf(i) = d
                      /\ \A j \in Tasks : tpc[j] # "queued" => OutDirOf(j) # d ) =>
                        IF stage = 1
                          THEN (tpc'[i] = "running" /\ spawned'[i] = 1) \/ res'[i].exc
                          ELSE tpc'[i] = "call"
      ]_vars

\* the detector, asked about the directory d, answers "complete"
DetectsComplete(d) ==
    IF stage = 1 THEN ~NeedsRerun1(logs[d], d[2])
    ELSE ~ReadRaises(logs[d]) /\ ~NeedsRerun2(logs[d])

C22_FullDrain ==
    (pc \in {"done", "crashed"} /\ tasks # <<>>) =>
        \A i \in Tasks :
            /\ tpc[i] \notin {"queued", "call", "running", "returned"}
            /\ tpc[i] = "collected" /\ Len(reported[i]) = 1

\* C23: while the stage-1 planner works, a step that passes over an
\* observation the detector reports complete changes no directory and no
\* log; the only directory a planner step removes is the one of the
\* observation it is about to queue; and every observation passed over so
\* far still has its directory and its complete log.
C23_PlannerFrame ==
    [][ (stage = 1 /\ pc \in {"plan", "queue"} /\ pc' \in {"plan", "queue"}) =>
          /\ (PlanDecides /\ DetectsComplete(OutDir1(PlanObs))) =>
                (dirs' = dirs /\ logs' = logs /\ worklist' = worklist)
          /\ \A d \in dirs \ dirs' :
                /\ pc = "plan" /\ pc' = "queue"
                /\ d = OutDir1(PlanObs)
                /\ ~DetectsComplete(d)
          /\ \A d \in DOMAIN logs :
                logs'[d] # logs[d] => (d \in dirs \ dirs' /\ logs'[d] = NoFile)
          /\ \A k \in 1..planned' :
                cfg.observations[k] \notin Range(worklist') =>
                    /\ OutDir1(cfg.observations[k]) \in dirs'
                    /\ DetectsComplete(OutDir1(cfg.observations[k]))'
      ]_vars

\* the first observation was complete and was passed over, its directory
\* and log are as they were; the second had a log finished for another id,
\* its directory has been removed and it is about to be queued
C23_Witness ==
    /\ stage = 1 /\ pc = "queue" /\ planned = 1 /\ worklist = <<>>
    /\ OutDir1(cfg.observations[1]) \in dirs
    /\ DetectsComplete(OutDir1(cfg.observations[1]))
    /\ hist.seen = NewFile(<<"-", "9999">>)
    /\ OutDir1(PlanObs) \notin dirs /\ ~logs[OutDir1(PlanObs)].exists

\* the entry of failures that the outcome of unit i calls for
FailureEntry(i) ==
    [key |-> <<tasks[i].obsid, tasks[i].det, tasks[i].comb>>,
     exc |-> res[i].exc,
     rc |-> IF res[i].exc THEN 0 ELSE res[i].rc]

\* C24: in run_nuproducts, while main collects and when it has ended, the
\* failures list holds exactly one entry for every collected outcome that
\* is an exception or a non-zero exit code, with the key of that unit and
\* its status, and nothing else: no entry for an outcome with exit code 0.
C24_FailureListExact ==
    (stage = 2 /\ pc \in {"collect", "done"}) =>
        LET Failed == {i \in Tasks : tpc[i] = "collected" /\ (res[i].exc \/ res[i].rc # 0)}
        IN  /\ Len(failures) = Cardinality(Failed)
            /\ \A n \in 1..Len(failures) :
                  /\ failures[n].exc \/ failures[n].rc # 0
                  /\ Cardinality({m \in 1..Len(failures) : failures[m] = failures[n]})
                       = Cardinality({i \in Failed : FailureEntry(i) = failures[n]})
            /\ \A i \in Failed : \E n \in 1..Len(failures) : failures[n] = FailureEntry(i)

\* the run has ended; the same unit key was submitted twice, one launch
\* ended with an exception and the other with exit code 2, and another
\* unit succeeded
C24_Witness ==
    /\ stage = 2 /\ pc = "done" /\ Len(failures) = 2
    /\ \E i, j, k \in Tasks :
          /\ i # j /\ Key(tasks[i]) = Key(tasks[j])
          /\ res[i].exc
          /\ ~res[j].exc /\ res[j].rc = 2
          /\ ~res[k].exc /\ res[k].rc = 0 /\ spawned[k] = 1

\* the positions of the cross-product of the configuration
Positions(c) ==
    (1..Len(c.observations)) \X {"A", "B"} \X (1..Len(c.src_radii))
        \X (1..Len(c.bkg_annuli)) \X (1..Len(c.bin_sizes))

\* the unit of a position
UnitOfPosition(c, p) ==
    [obsid |-> c.observations[p[1]],
     det |-> p[2],
     comb |-> <<c.src_radii[p[3]], c.bkg_annuli[p[4]][1], c.bkg_annuli[p[4]][2],
                c.bin_sizes[p[5]]>>]

\* C25: the task list that run_nuproducts.main submits holds exactly one
\* unit for each position of observations x {A, B} x source radii x annulus
\* pairs x bin sizes: its length is the product of the list lengths times
\* 2, every position's unit is there as often as positions give it, and
\* nothing else is there; and the list stays as submitted until the run ends.
C25_CrossProduct ==
    [][ /\ (stage = 2 /\ pc = "plan" /\ pc' = "collect") =>
              /\ Len(tasks') = Len(cfg.observations) * 2 * Len(cfg.src_radii)
                                 * Len(cfg.bkg_annuli) * Len(cfg.bin_sizes)
              /\ \A p \in Positions(cfg) :
                    Cardinality({n \in 1..Len(tasks') : tasks'[n] = UnitOfPosition(cfg, p)})
                      = Cardinality({q \in Positions(cfg) :
                                       UnitOfPosition(cfg, q) = UnitOfPosition(cfg, p)})
              /\ \A n \in 1..Len(tasks') :
                    \E p \in Positions(cfg) : tasks'[n] = UnitOfPosition(cfg, p)
        /\ (stage = 2 /\ pc = "collect") => (tasks' = tasks /\ cfg' = cfg)
      ]_vars

\* one observation, two different radii: four different units are queued
C25_Witness ==
    /\ stage = 2 /\ pc = "collect" /\ Len(tasks) = 4
    /\ Len(cfg.src_radii) = 2
    /\ Cardinality(Range(tasks)) = 4
    /\ \A i \in Tasks : tpc[i] = "queued"

\* C26: in run_nupipeline every removal of an output directory is a step of
\* the planner, taken before anything is submitted to the pool; and when
\* the first launch of a queued observation starts, that observation has no
\* output directory.
C26_RestartFromScratch ==
    [][ stage = 1 =>
          /\ \A d \in dirs \ dirs' :
                pc = "plan" /\ tasks = <<>> /\ tasks' = <<>>
          /\ (pc \in {"collect", "abort"} /\ tasks' = tasks) =>
                \A i \in Tasks :
                    ( /\ tpc[i] = "queued" /\ tpc'[i] # "queued"
                      /\ \A j \in Tasks : tasks[j] = tasks[i] => tpc[j] = "queued" ) =>
                        /\ OutDir1(tasks[i]) \notin dirs
                        /\ ~logs[OutDir1(tasks[i])].exists
      ]_vars

\* second run over two observations: the command of the first is running
\* in a directory it has just made, the second is still queued and has no
\* directory
C26_Witness ==
    /\ stage = 1 /\ run = 2 /\ pc = "collect" /\ Len(tasks) = 2
    /\ tasks[1] # tasks[2]
    /\ tpc[1] = "running" /\ logs[OutDir1(tasks[1])] = NewFile(<<"-">>)
    /\ tpc[2] = "queued" /\ OutDir1(tasks[2]) \notin dirs

BadWorkerSetting ==
    IntRaises(env.jobs) \/ ResolveWorkers(env.jobs, env.cpus) <= 0

\* C27: when the worker-count setting of run_nupipeline does not resolve to
\* a positive integer, no step of the process removes an output directory
\* or a log, and nothing is submitted to a pool.
C27_BadWorkerCountRemovesNothing ==
    [][ (stage = 1 /\ BadWorkerSetting) =>
          /\ dirs' = dirs /\ logs' = logs
          /\ tasks' = <<>>
      ]_vars

\* C28: when a run of run_nuproducts has ended, the log of every unit whose
\* collected outcome was a success (exit code 0, no exception) holds the
\* completion marker, repeated unit keys included.
C28_ReportedSuccessHasMarker ==
    (stage = 2 /\ pc = "done") =>
        \A i \in Tasks :
            (tpc[i] = "collected" /\ ~FailureOutcome(i)) =>
                /\ LogOf2(i).exists
                /\ FIN_RE_search(LogOf2(i).text)

Marked2(d) == logs[d].exists /\ FIN_RE_search(logs[d].text)

\* the units of directory d that a worker holds between the re-check of the
\* log and the end of _launch
MidLaunch2(d) ==
    {i \in Tasks : tpc[i] \in {"call", "running", "returned"} /\ OutDir2(tasks[i]) = d}

\* C29: in run_nuproducts, a log that holds the completion marker while no
\* worker is past the re-check for it is left as it is by every step of this
\* run and of every later run, and no worker gets past the re-check for it:
\* the unit stays complete.
C29_CompleteStaysComplete ==
    [][ stage = 2 =>
          /\ \A d \in DOMAIN logs :
                (logs'[d] # logs[d] /\ Marked2(d)) => MidLaunch2(d) # {}
          /\ tasks' = tasks =>
                \A i \in Tasks :
                    (tpc[i] = "queued" /\ tpc'[i] \in {"call", "running", "returned"}) =>
                        (Marked2(OutDir2(tasks[i])) => MidLaunch2(OutDir2(tasks[i])) # {})
      ]_vars

\* the second run has ended: the unit whose command exited 0 in the first
\* run was passed over without a command, and its log still has the marker
C29_Witness ==
    /\ stage = 2 /\ run = 2 /\ pc = "done"
    /\ hist.prevRan
    /\ \E i \in Tasks :
          /\ tpc[i] = "collected" /\ spawned[i] = 0 /\ res[i] = Outcome(FALSE, 0)
          /\ Marked2(OutDir2(tasks[i]))
          /\ LogOf2(i).text = <<"x">> \o MarkerText

\* the keys the inputs of the run make fail: the units whose log could not
\* be read when the run started, and the units without a readable marked
\* log whose command exits with a code other than 0
ExpectedFailedKeys ==
    {Key(u) : u \in {v \in Range(tasks) :
        LET f == hist.given.logs0[OutDir2(v)]
        IN  ReadRaises(f) \/ (NeedsRerun2(f) /\ hist.given.codes[Key(v)] # 0)}}

FailedKeys == {failures[k].key : k \in 1..Len(failures)}

\* C30: with the configuration, the logs the run starts from and the exit
\* code of the command of each unit key fixed, the set of failed unit keys
\* and the exit status of run_nuproducts are a function of these inputs
\* alone: they are the same for every completion order and worker count.
C30_OutcomeIsFunctionOfInputs ==
    (stage = 2 /\ pc = "done") =>
        /\ FailedKeys = ExpectedFailedKeys
        /\ exitStatus = (IF ExpectedFailedKeys = {} THEN 0 ELSE 1)

\* two workers, four units of which the third was collected first; one key
\* fails by its exit code and one succeeds
C30_Witness ==
    /\ stage = 2 /\ pc = "done" /\ max_workers = 2 /\ Len(tasks) = 4
    /\ \E k \in DOMAIN hist.given.codes : hist.given.codes[k] = 0
    /\ Len(failures) >= 2
    /\ failures[1].key = Key(tasks[3])
    /\ \E i \in Tasks : spawned[i] = 1 /\ res[i] = Outcome(FALSE, 0)
    /\ exitStatus = 1

=============================================================================
